---- MODULE Spec2Model ----
(***************************************************************************)
(* Model of packages/cli/indexers/python_indexer.py: the Python import     *)
(* graph indexer (extract_imports, resolve_import_path,                    *)
(* build_python_graph).                                                    *)
(*                                                                         *)
(* A Python str is a sequence of one-character strings; a pathlib.Path is  *)
(* its tuple of parts (Path.parts), each part a str.  The file system      *)
(* below the indexed root is the set of regular files it holds, as part    *)
(* tuples relative to the root; directories are the proper prefixes of     *)
(* those tuples.  The file system is POSIX (case sensitive, "/" separator).*)
(***************************************************************************)
EXTENDS Integers, Sequences, FiniteSets, TLC

VARIABLES
    root,        \* parts of Path(root_path)
    rootExists,  \* root.exists()
    tree,        \* regular files below root, as parts relative to root
    content,     \* file -> its parsed text (a Module record)
    run,         \* 1 or 2: which invocation of build_python_graph is running
    extra_path,  \* the extra_path argument of the running invocation
    pc,          \* "start", "file", "import", "done"
    py_files,    \* sorted(root.rglob('*.py'))
    i,           \* position of the outer for loop in py_files
    node_id,     \* node_id of the file being processed
    imports,     \* extract_imports(py_file) of the file being processed
    j,           \* position of the inner for loop in imports
    nodes, edges, node_map, edge_set,   \* the accumulators of lines 48-51
    first,       \* what the first invocation was given and returned
    repaired     \* TRUE once the unparsable files were replaced by empty ones

vars == <<root, rootExists, tree, content, run, extra_path, pc, py_files, i,
          node_id, imports, j, nodes, edges, node_map, edge_set, first, repaired>>

(***************************************************************************)
(* Bounds of the model.                                                    *)
(***************************************************************************)
MaxFiles == 3       \* a tree holds at most this many files

(***************************************************************************)
(* Python values.                                                          *)
(***************************************************************************)
None == <<"None">>

\* bool(x) for x a str or None
Truthy(x) == x # None /\ x # <<>>

\* ord(c) of the characters that occur in the model
CharCode(c) ==
    CASE c = "." -> 46  [] c = "/" -> 47  [] c = "_" -> 95
      [] c = "a" -> 97  [] c = "e" -> 101 [] c = "i" -> 105 [] c = "j" -> 106
      [] c = "n" -> 110 [] c = "o" -> 111 [] c = "p" -> 112 [] c = "r" -> 114
      [] c = "s" -> 115 [] c = "t" -> 116 [] c = "u" -> 117 [] c = "v" -> 118
      [] c = "y" -> 121 [] c = "→" -> 8594

\* s < t for two str (lexicographic by code point)
RECURSIVE StrLess(_, _)
StrLess(s, t) ==
    IF t = <<>> THEN FALSE
    ELSE IF s = <<>> THEN TRUE
    ELSE IF s[1] # t[1] THEN CharCode(s[1]) < CharCode(t[1])
    ELSE StrLess(Tail(s), Tail(t))

\* s.startswith(c) for a one-character c
StartsWith(s, c) == Len(s) >= 1 /\ s[1] = c

\* s.endswith(suf)
EndsWith(s, suf) ==
    /\ Len(s) >= Len(suf)
    /\ SubSeq(s, Len(s) - Len(suf) + 1, Len(s)) = suf

\* s.replace(old, new) for one-character old and new
Replace(s, old, new) == [k \in 1..Len(s) |-> IF s[k] = old THEN new ELSE s[k]]

\* c in s
Contains(s, c) == \E k \in 1..Len(s) : s[k] = c

\* s.split(sep): the pieces between separators, empty pieces kept
RECURSIVE Split(_, _)
Split(s, sep) ==
    IF ~Contains(s, sep) THEN <<s>>
    ELSE LET k == CHOOSE n \in 1..Len(s) :
                     s[n] = sep /\ \A m \in 1..(n - 1) : s[m] # sep
         IN <<SubSeq(s, 1, k - 1)>> \o Split(SubSeq(s, k + 1, Len(s)), sep)

(***************************************************************************)
(* pathlib.                                                                *)
(***************************************************************************)
\* the parts pathlib parses out of a path string: empty and "." pieces dropped
RECURSIVE DropEmpty(_)
DropEmpty(ps) ==
    IF ps = <<>> THEN <<>>
    ELSE IF Head(ps) = <<>> \/ Head(ps) = <<".">> THEN DropEmpty(Tail(ps))
    ELSE <<Head(ps)>> \o DropEmpty(Tail(ps))

\* base / s: an absolute s replaces base
PathJoin(base, s) ==
    IF StartsWith(s, "/") THEN <<(<<"/">>)>> \o DropEmpty(Split(s, "/"))
    ELSE base \o DropEmpty(Split(s, "/"))

\* p is base or lies below it
IsRelativeTo(p, base) ==
    Len(p) >= Len(base) /\ SubSeq(p, 1, Len(base)) = base

\* p.relative_to(base)
RelativeTo(p, base) == SubSeq(p, Len(base) + 1, Len(p))

\* str(p) of a relative path
RECURSIVE Str(_)
Str(p) ==
    IF p = <<>> THEN <<".">>
    ELSE IF Len(p) = 1 THEN p[1]
    ELSE p[1] \o <<"/">> \o Str(Tail(p))

\* p < q for two paths: their parts compared as lists of str
RECURSIVE PathLess(_, _)
PathLess(p, q) ==
    IF q = <<>> THEN FALSE
    ELSE IF p = <<>> THEN TRUE
    ELSE IF p[1] # q[1] THEN StrLess(p[1], q[1])
    ELSE PathLess(Tail(p), Tail(q))

\* the literals '.py' and '__init__.py'
DotPy == <<".", "p", "y">>
InitPy == <<"_", "_", "i", "n", "i", "t", "_", "_", ".", "p", "y">>

(***************************************************************************)
(* The file system below root.                                             *)
(***************************************************************************)
\* the directories below root: the proper, non-empty prefixes of the files
Dirs == UNION {{SubSeq(f, 1, k) : k \in 1..(Len(f) - 1)} : f \in tree}

\* p.exists() for a path p
Exists(p) ==
    /\ rootExists
    /\ IsRelativeTo(p, root)
    /\ RelativeTo(p, root) \in tree \cup Dirs \cup {<<>>}

\* root.glob('*.py'), never called by the indexer: the entries directly in root
Glob(r) ==
    {r \o e : e \in {x \in tree \cup Dirs : Len(x) = 1 /\ EndsWith(x[1], DotPy)}}

\* root.rglob('*.py'): every entry below root whose name ends in ".py"
RGlob(r) ==
    {r \o e : e \in {x \in tree \cup Dirs : EndsWith(x[Len(x)], DotPy)}}

\* the orders in which the operating system may list a set of paths
Listings(S) ==
    {o \in [1..Cardinality(S) -> S] : \A a, b \in 1..Cardinality(S) : o[a] = o[b] => a = b}

\* sorted(paths)
RECURSIVE Insert(_, _)
Insert(p, s) ==
    IF s = <<>> THEN <<p>>
    ELSE IF PathLess(p, Head(s)) THEN <<p>> \o s
    ELSE <<Head(s)>> \o Insert(p, Tail(s))

RECURSIVE Sorted(_)
Sorted(s) == IF s = <<>> THEN <<>> ELSE Insert(Head(s), Sorted(Tail(s)))

(***************************************************************************)
(* Syntax trees (module ast).  A node is a record; the fields a node type  *)
(* does not have are empty.                                                *)
(***************************************************************************)
Import(names) ==
    [type |-> "Import", names |-> names, module |-> None, level |-> 0, body |-> <<>>]
ImportFrom(module, level) ==
    [type |-> "ImportFrom", names |-> <<>>, module |-> module, level |-> level, body |-> <<>>]
FunctionDef(body) ==
    [type |-> "FunctionDef", names |-> <<>>, module |-> None, level |-> 0, body |-> body]
\* a file: parses is FALSE when open() or ast.parse() raises on it
Module(parses, body) ==
    [type |-> "Module", parses |-> parses, body |-> body]

\* ast.walk(node): breadth first, a node before its children
RECURSIVE Walk(_)
Walk(todo) ==
    IF todo = <<>> THEN <<>>
    ELSE <<Head(todo)>> \o Walk(Tail(todo) \o Head(todo).body)

\* a variant that keeps the leading dots of a relative from-import
DottedNodeImports(node) ==
    IF node.type = "Import" THEN node.names
    ELSE IF node.type = "ImportFrom" THEN
        IF Truthy(node.module)
        THEN <<[k \in 1..node.level |-> "."] \o node.module>>
        ELSE <<>>
    ELSE <<>>

\* the names one visited node appends to imports (lines 21-26)
NodeImports(node) ==
    IF node.type = "Import" THEN node.names
    ELSE IF node.type = "ImportFrom" THEN
        IF Truthy(node.module) THEN <<node.module>> ELSE <<>>
    ELSE <<>>

RECURSIVE Collect(_)
Collect(ns) ==
    IF ns = <<>> THEN <<>> ELSE NodeImports(Head(ns)) \o Collect(Tail(ns))

\* a variant that scans the text of a file that does not parse
LenientExtract(file) == Collect(Walk(file.body))

\* extract_imports(file_path), on the file's parsed text
extract_imports(file) ==
    IF file.parses THEN Collect(Walk(file.body)) ELSE <<>>

(***************************************************************************)
(* resolve_import_path                                                     *)
(***************************************************************************)
\* a variant that prefers the package file
PackageFirst(r, import_name) ==
    LET module_path  == PathJoin(r, Replace(import_name, ".", "/") \o DotPy)
        package_path == PathJoin(r, Replace(import_name, ".", "/")) \o <<InitPy>>
    IN IF Exists(package_path) THEN Str(RelativeTo(package_path, r))
       ELSE IF Exists(module_path) THEN Str(RelativeTo(module_path, r))
       ELSE None

resolve_import_path(r, import_name) ==
    LET module_path  == PathJoin(r, Replace(import_name, ".", "/") \o DotPy)
        package_path == PathJoin(r, Replace(import_name, ".", "/")) \o <<InitPy>>
    IN IF Exists(module_path) THEN Str(RelativeTo(module_path, r))
       ELSE IF Exists(package_path) THEN Str(RelativeTo(package_path, r))
       ELSE None

(***************************************************************************)
(* The trees and texts the model runs the indexer on.                      *)
(***************************************************************************)
Venv == <<"v", "e", "n", "v">>
Proj == <<"p", "r", "o", "j">>

\* the root_path arguments: "proj" and "venv/proj"
Roots == {<<Proj>>, <<Venv, Proj>>}

\* the extra_path arguments: absent, or "p"
ExtraPaths == {None, <<"p">>}

\* the first invocation is build_python_graph(root_path), extra_path left
\* at its default; the second is given any extra_path
ExtraPathsOf(n) == IF n = 1 THEN {None} ELSE ExtraPaths

\* a.py, p.py, p/__init__.py, p/a.py, _u.py, venv/v.py
Universe ==
    { <<(<<"a">> \o DotPy)>>,
      <<(<<"p">> \o DotPy)>>,
      <<(<<"p">>), InitPy>>,
      <<(<<"p">>), <<"a">> \o DotPy>>,
      <<(<<"_", "u">> \o DotPy)>>,
      <<Venv, <<"v">> \o DotPy>> }

\* import p, os / from p import y / def f(): import p.__init__ / import p.a
\* (ast.walk visits the import inside f last)
ProgA ==
    Module(TRUE, << Import(<< <<"p">>, <<"o", "s">> >>),
                    ImportFrom(<<"p">>, 0),
                    FunctionDef(<< Import(<< <<"p", ".", "_", "_", "i", "n", "i", "t", "_", "_">> >>) >>),
                    Import(<< <<"p", ".", "a">> >>) >>)

\* def f(): import venv.v / from .a import y / from . import y /
\* from .._u import y
ProgB ==
    Module(TRUE, << FunctionDef(<< Import(<< <<"v", "e", "n", "v", ".", "v">> >>) >>),
                    ImportFrom(<<"a">>, 1),
                    ImportFrom(None, 1),
                    ImportFrom(<<"_", "u">>, 2) >>)

\* import p followed by a syntax error
Broken == Module(FALSE, << Import(<< <<"p">> >>) >>)

\* a file without imports
Empty == Module(TRUE, <<>>)

Programs == {Empty, Broken, ProgA, ProgB}

\* the same files, those that do not parse replaced by files without imports
Repaired(c) == [f \in DOMAIN c |-> IF c[f].parses THEN c[f] ELSE Empty]

(***************************************************************************)
(* build_python_graph                                                      *)
(***************************************************************************)
Excluded ==
    { <<"_", "_", "p", "y", "c", "a", "c", "h", "e", "_", "_">>,
      <<".", "v", "e", "n", "v">>,
      Venv,
      <<".", "e", "g", "g", "-", "i", "n", "f", "o">> }

\* line 62: any(part in py_file.parts for part in [...])
Skipped(py_file) == \E part \in Excluded : \E k \in 1..Len(py_file) : py_file[k] = part

\* line 70
Folder(rel_path) ==
    IF Contains(rel_path, "/") THEN Split(rel_path, "/")[1] ELSE rel_path

\* lines 71-78
Node(id) ==
    [id |-> id, lang |-> "py", env |-> "backend", pkg |-> "backend",
     folder |-> Folder(id), changed |-> FALSE]

\* lines 93-97
Edge(from, to) == [from |-> from, to |-> to, kind |-> "import"]

\* line 90
EdgeKey(from, to) == from \o <<"→">> \o to

\* the value build_python_graph returns
Result == [nodes |-> nodes, edges |-> edges]

Init ==
    /\ root \in Roots
    /\ rootExists \in BOOLEAN
    /\ tree \in {T \in SUBSET Universe : Cardinality(T) <= MaxFiles}
    /\ ~rootExists => tree = {}
    /\ content \in [tree -> Programs]
    /\ run = 1
    /\ extra_path = None
    /\ pc = "start"
    /\ py_files = <<>>
    /\ i = 1
    /\ node_id = None
    /\ imports = <<>>
    /\ j = 1
    /\ nodes = <<>>
    /\ edges = <<>>
    /\ node_map = {}
    /\ edge_set = {}
    /\ first = None
    /\ repaired = FALSE

fs == <<root, rootExists, tree, content, run, first, repaired>>

\* lines 53-55: the root does not exist
MissingRoot ==
    /\ pc = "start"
    /\ ~rootExists
    /\ \E extra \in ExtraPathsOf(run) : extra_path' = extra
    /\ pc' = "done"
    /\ UNCHANGED <<fs, py_files, i, node_id, imports, j, nodes, edges, node_map, edge_set>>

\* a variant without sorted()
DiscoverUnsorted ==
    /\ pc = "start"
    /\ rootExists
    /\ \E extra \in ExtraPathsOf(run) : extra_path' = extra
    /\ \E listing \in Listings(RGlob(root)) : py_files' = listing
    /\ i' = 1
    /\ pc' = "file"
    /\ UNCHANGED <<fs, node_id, imports, j, nodes, edges, node_map, edge_set>>

\* lines 53-58
Discover ==
    /\ pc = "start"
    /\ rootExists
    /\ \E extra \in ExtraPathsOf(run) : extra_path' = extra
    /\ \E listing \in Listings(RGlob(root)) : py_files' = Sorted(listing)
    /\ i' = 1
    /\ pc' = "file"
    /\ UNCHANGED <<fs, node_id, imports, j, nodes, edges, node_map, edge_set>>

\* lines 60-63: the file lies in an excluded directory
SkipFile ==
    /\ pc = "file"
    /\ i <= Len(py_files)
    /\ Skipped(py_files[i])
    /\ i' = i + 1
    /\ UNCHANGED <<fs, extra_path, pc, py_files, node_id, imports, j, nodes, edges,
                   node_map, edge_set>>

\* lines 60-81: register the node, extract the imports
VisitFile ==
    /\ pc = "file"
    /\ i <= Len(py_files)
    /\ ~Skipped(py_files[i])
    /\ LET py_file  == py_files[i]
           rel      == RelativeTo(py_file, root)
           rel_path == Str(rel)
       IN /\ node_id' = rel_path
          /\ IF rel_path \notin node_map
             THEN /\ node_map' = node_map \cup {rel_path}
                  /\ nodes' = Append(nodes, Node(rel_path))
             ELSE UNCHANGED <<node_map, nodes>>
          /\ imports' = IF rel \in tree THEN extract_imports(content[rel]) ELSE <<>>
    /\ j' = 1
    /\ pc' = "import"
    /\ UNCHANGED <<fs, extra_path, py_files, i, edges, edge_set>>

\* a variant without the edge_set test of line 91
ImportStepNoDedup ==
    /\ pc = "import"
    /\ j <= Len(imports)
    /\ LET imp == imports[j]
           target_path == resolve_import_path(root, imp)
           edge_key == EdgeKey(node_id, target_path)
       IN IF /\ ~StartsWith(imp, "_")
             /\ Truthy(target_path)
             /\ target_path # node_id
          THEN /\ edge_set' = edge_set \cup {edge_key}
               /\ edges' = Append(edges, Edge(node_id, target_path))
          ELSE UNCHANGED <<edge_set, edges>>
    /\ j' = j + 1
    /\ UNCHANGED <<fs, extra_path, pc, py_files, i, node_id, imports, nodes, node_map>>

\* a variant without the target_path != node_id test of line 89
ImportStepSelfLoops ==
    /\ pc = "import"
    /\ j <= Len(imports)
    /\ LET imp == imports[j]
           target_path == resolve_import_path(root, imp)
           edge_key == EdgeKey(node_id, target_path)
       IN IF /\ ~StartsWith(imp, "_")
             /\ Truthy(target_path)
             /\ edge_key \notin edge_set
          THEN /\ edge_set' = edge_set \cup {edge_key}
               /\ edges' = Append(edges, Edge(node_id, target_path))
          ELSE UNCHANGED <<edge_set, edges>>
    /\ j' = j + 1
    /\ UNCHANGED <<fs, extra_path, pc, py_files, i, node_id, imports, nodes, node_map>>

\* a variant that also searches the directory extra_path (taken relative
\* to root) when root does not resolve the name
ImportStepExtraPath ==
    /\ pc = "import"
    /\ j <= Len(imports)
    /\ LET imp == imports[j]
           in_root == resolve_import_path(root, imp)
           target_path ==
               IF Truthy(in_root) \/ extra_path = None THEN in_root
               ELSE resolve_import_path(PathJoin(root, extra_path), imp)
           edge_key == EdgeKey(node_id, target_path)
       IN IF /\ ~StartsWith(imp, "_")
             /\ Truthy(target_path)
             /\ target_path # node_id
             /\ edge_key \notin edge_set
          THEN /\ edge_set' = edge_set \cup {edge_key}
               /\ edges' = Append(edges, Edge(node_id, target_path))
          ELSE UNCHANGED <<edge_set, edges>>
    /\ j' = j + 1
    /\ UNCHANGED <<fs, extra_path, pc, py_files, i, node_id, imports, nodes, node_map>>

\* lines 82-97: one iteration of the loop over imports
ImportStep ==
    /\ pc = "import"
    /\ j <= Len(imports)
    /\ LET imp == imports[j]
           target_path == resolve_import_path(root, imp)
           edge_key == EdgeKey(node_id, target_path)
       IN IF /\ ~StartsWith(imp, "_")
             /\ Truthy(target_path)
             /\ target_path # node_id
             /\ edge_key \notin edge_set
          THEN /\ edge_set' = edge_set \cup {edge_key}
               /\ edges' = Append(edges, Edge(node_id, target_path))
          ELSE UNCHANGED <<edge_set, edges>>
    /\ j' = j + 1
    /\ UNCHANGED <<fs, extra_path, pc, py_files, i, node_id, imports, nodes, node_map>>

\* line 82: the imports are exhausted, on to the next file
NextFile ==
    /\ pc = "import"
    /\ j > Len(imports)
    /\ i' = i + 1
    /\ pc' = "file"
    /\ UNCHANGED <<fs, extra_path, py_files, node_id, imports, j, nodes, edges,
                   node_map, edge_set>>

\* line 99
Return ==
    /\ pc = "file"
    /\ i > Len(py_files)
    /\ pc' = "done"
    /\ UNCHANGED <<fs, extra_path, py_files, i, node_id, imports, j, nodes, edges,
                   node_map, edge_set>>

\* lines 48-51 of a second invocation, on the same tree
Again ==
    /\ pc = "done"
    /\ run = 1
    /\ first' = [nodes |-> nodes, edges |-> edges, extra |-> extra_path, content |-> content]
    /\ run' = 2
    /\ pc' = "start"
    /\ py_files' = <<>>
    /\ i' = 1
    /\ node_id' = None
    /\ imports' = <<>>
    /\ j' = 1
    /\ nodes' = <<>>
    /\ edges' = <<>>
    /\ node_map' = {}
    /\ edge_set' = {}
    /\ UNCHANGED <<root, rootExists, tree, content, extra_path, repaired>>

\* the same, after the files that do not parse were emptied
AgainRepaired ==
    /\ pc = "done"
    /\ run = 1
    /\ \E f \in tree : ~content[f].parses
    /\ first' = [nodes |-> nodes, edges |-> edges, extra |-> extra_path, content |-> content]
    /\ content' = Repaired(content)
    /\ repaired' = TRUE
    /\ run' = 2
    /\ pc' = "start"
    /\ py_files' = <<>>
    /\ i' = 1
    /\ node_id' = None
    /\ imports' = <<>>
    /\ j' = 1
    /\ nodes' = <<>>
    /\ edges' = <<>>
    /\ node_map' = {}
    /\ edge_set' = {}
    /\ UNCHANGED <<root, rootExists, tree, extra_path>>

Next ==
    \/ MissingRoot
    \/ Discover
    \/ SkipFile
    \/ VisitFile
    \/ ImportStep
    \/ NextFile
    \/ Return
    \/ Again
    \/ AgainRepaired

Spec == Init /\ [][Next]_vars

(***************************************************************************)
(* Vocabulary of the properties.                                           *)
(***************************************************************************)
Done == pc = "done"

NodeIds == {nodes[k].id : k \in 1..Len(nodes)}
EdgePairs == {<<edges[k].from, edges[k].to>> : k \in 1..Len(edges)}

A_py == <<(<<"a">> \o DotPy)>>
P_py == <<(<<"p">> \o DotPy)>>
P_init == <<(<<"p">>), InitPy>>
P_a == <<(<<"p">>), <<"a">> \o DotPy>>
U_py == <<(<<"_", "u">> \o DotPy)>>
V_py == <<Venv, <<"v">> \o DotPy>>

\* the .py files below root that the loop of lines 60-63 does not skip
DiscoveredFiles ==
    {f \in tree : EndsWith(f[Len(f)], DotPy) /\ ~Skipped(root \o f)}

\* the .py files below root with no excluded name among the segments of
\* their path relative to root
FilesOutsideExcludedDirs ==
    {f \in tree : EndsWith(f[Len(f)], DotPy) /\ \A k \in 1..Len(f) : f[k] \notin Excluded}

\* <name with dots replaced by '/'>.py and <name as directory>/__init__.py,
\* relative to root
ModuleFile(name) == DropEmpty(Split(Replace(name, ".", "/") \o DotPy, "/"))
PackageFile(name) == DropEmpty(Split(Replace(name, ".", "/"), "/")) \o <<InitPy>>

\* the first of the two candidates that exists below root, as a node id
FirstCandidate(name) ==
    IF ModuleFile(name) \in tree \cup Dirs THEN Str(ModuleFile(name))
    ELSE IF PackageFile(name) \in tree \cup Dirs THEN Str(PackageFile(name))
    ELSE None

\* the statements of a file, nested ones included
Statements(f) == LET w == Walk(content[f].body) IN {w[k] : k \in 1..Len(w)}

\* the from-imports of f with a relative level and a module name
RelativeImports(f) ==
    {st \in Statements(f) : st.type = "ImportFrom" /\ st.level > 0 /\ st.module # None}

\* the text of a file with every relative from-import written as the
\* absolute import of the same module name, and `from . import y` removed
RECURSIVE AbsoluteBody(_)
AbsoluteBody(body) ==
    IF body = <<>> THEN <<>>
    ELSE LET st == Head(body)
         IN (IF st.type = "ImportFrom" /\ st.level > 0
             THEN IF st.module = None THEN <<>> ELSE <<ImportFrom(st.module, 0)>>
             ELSE <<[st EXCEPT !.body = AbsoluteBody(st.body)]>>)
            \o AbsoluteBody(Tail(body))

Absolute(file) == Module(file.parses, AbsoluteBody(file.body))

\* the position of a node id in nodes
NodeIndex(id) == CHOOSE k \in 1..Len(nodes) : nodes[k].id = id

\* the file a node id names
FileOf(id) == CHOOSE f \in tree : Str(f) = id

\* the position in the imports of the file `from` of the first name that
\* resolves to `to`
FirstImportOf(from, to) ==
    LET names == extract_imports(content[FileOf(from)])
        hits == {k \in 1..Len(names) :
                    ~StartsWith(names[k], "_") /\ FirstCandidate(names[k]) = to}
    IN CHOOSE k \in hits : \A m \in hits : k <= m

\* the file being processed while pc = "import"
CurrentFile == RelativeTo(py_files[i], root)

(***************************************************************************)
(* C1: in the returned graph every edge's `to` is the id of a returned     *)
(* node, also when the import resolves into a directory discovery skips.   *)
(***************************************************************************)
C1_EdgeTargetsAreNodes ==
    Done => \A k \in 1..Len(edges) : edges[k].to \in NodeIds

(***************************************************************************)
(* C2: the returned nodes are exactly the discovered files, one node each, *)
(* with id the file's path relative to root.                               *)
(***************************************************************************)
C2_OneNodePerDiscoveredFile ==
    Done =>
        /\ NodeIds = {Str(f) : f \in DiscoveredFiles}
        /\ Len(nodes) = Cardinality(DiscoveredFiles)
        /\ \A a, b \in 1..Len(nodes) : nodes[a].id = nodes[b].id => a = b

C2_Witness ==
    /\ Done
    /\ rootExists
    /\ Len(nodes) = 2
    /\ Cardinality(tree) = 3
    /\ P_a \in DiscoveredFiles
    /\ V_py \in tree

(***************************************************************************)
(* C3: at every point of a run no two edges share the same (from, to), and *)
(* the dedup keys of edge_set name the edges one to one.                   *)
(***************************************************************************)
C3_NoDuplicateEdges ==
    /\ \A a, b \in 1..Len(edges) :
          (edges[a].from = edges[b].from /\ edges[a].to = edges[b].to) => a = b
    /\ \A a, b \in 1..Len(edges) :
          EdgeKey(edges[a].from, edges[a].to) = EdgeKey(edges[b].from, edges[b].to) => a = b
    /\ edge_set = {EdgeKey(edges[k].from, edges[k].to) : k \in 1..Len(edges)}

\* a file has imported one target under two different names, and again
\* under the same name
C3_Witness ==
    /\ pc = "import"
    /\ j > Len(imports)
    /\ \E a, b, c \in 1..Len(imports) :
          /\ a < b /\ b < c
          /\ imports[a] = imports[b]
          /\ imports[a] # imports[c]
          /\ FirstCandidate(imports[a]) = FirstCandidate(imports[c])
          /\ <<node_id, FirstCandidate(imports[a])>> \in EdgePairs

(***************************************************************************)
(* C4: no edge has from equal to to; an import that resolves to the        *)
(* importing file adds no edge.                                            *)
(***************************************************************************)
C4_NoSelfLoops ==
    \A k \in 1..Len(edges) : edges[k].from # edges[k].to

\* p/a.py has imported p.a, or p/__init__.py has imported p
C4_Witness ==
    /\ pc = "import"
    /\ \E a \in 1..(j - 1) :
          /\ a <= Len(imports)
          /\ ~StartsWith(imports[a], "_")
          /\ FirstCandidate(imports[a]) = node_id
    /\ CurrentFile \in {P_a, P_init}

(***************************************************************************)
(* C5: a file that cannot be read or parsed yields no import names; it     *)
(* still gets a node, has no outgoing edge, and the whole result is the    *)
(* one obtained when that file is a file without imports.                  *)
(***************************************************************************)
C5_BrokenFileIsEmptyFile ==
    /\ (pc = "import" /\ ~content[CurrentFile].parses) => imports = <<>>
    /\ Done => \A f \in DiscoveredFiles :
          ~content[f].parses =>
              /\ Str(f) \in NodeIds
              /\ \A k \in 1..Len(edges) : edges[k].from # Str(f)
    /\ (Done /\ run = 2 /\ repaired) =>
          /\ nodes = first.nodes
          /\ edges = first.edges

\* the second run is over the repaired tree; in the first, p.py did not
\* parse and was the target of an edge from a.py
C5_Witness ==
    /\ Done /\ run = 2 /\ repaired
    /\ tree = {A_py, P_py}
    /\ ~first.content[P_py].parses
    /\ content[P_py] = Empty
    /\ <<Str(A_py), Str(P_py)>> \in EdgePairs
    /\ Str(P_py) \in NodeIds

(***************************************************************************)
(* C6: a .py file below root gets a node iff no segment of its path        *)
(* relative to root is an excluded name; the root's own path plays no part.*)
(***************************************************************************)
C6_ExclusionIsRelativeToRoot ==
    (Done /\ rootExists) => NodeIds = {Str(f) : f \in FilesOutsideExcludedDirs}

(***************************************************************************)
(* C7: resolve_import_path returns <name>.py when it exists, even if       *)
(* <name>/__init__.py exists too, else <name>/__init__.py when it exists,  *)
(* else None; and an unresolved name adds no edge.                         *)
(***************************************************************************)
C7_ModuleFileBeforePackage ==
    /\ (pc = "import" /\ j <= Len(imports)) =>
          resolve_import_path(root, imports[j]) = FirstCandidate(imports[j])
    /\ Done => \A f \in DiscoveredFiles :
          LET names == extract_imports(content[f])
              wanted == {FirstCandidate(names[k]) : k \in
                            {m \in 1..Len(names) : ~StartsWith(names[m], "_")}}
          IN /\ \A t \in wanted \ {None, Str(f)} : <<Str(f), t>> \in EdgePairs
             /\ \A e \in EdgePairs : e[1] = Str(f) => e[2] \in wanted \ {None}

\* p.py and p/__init__.py both exist; a.py imported p and os: one edge,
\* to p.py
C7_Witness ==
    /\ Done
    /\ tree = {A_py, P_py, P_init}
    /\ content[A_py] = ProgA
    /\ <<Str(A_py), Str(P_py)>> \in EdgePairs
    /\ FirstCandidate(<<"o", "s">>) = None
    /\ Cardinality({e \in EdgePairs : e[1] = Str(A_py)}) = 2

(***************************************************************************)
(* C8: a second run over the unchanged tree returns the same nodes and     *)
(* edges in the same order: nodes in sorted path order, edges grouped by   *)
(* source file in that order and, within a file, in extraction order.      *)
(***************************************************************************)
C8_RunsAgree ==
    /\ (Done /\ run = 2 /\ ~repaired /\ extra_path = first.extra) =>
          /\ nodes = first.nodes
          /\ edges = first.edges
    /\ Done =>
          /\ \A a, b \in 1..Len(nodes) :
                a < b => PathLess(DropEmpty(Split(nodes[a].id, "/")),
                                  DropEmpty(Split(nodes[b].id, "/")))
          /\ \A a, b \in 1..Len(edges) :
                a < b =>
                   \/ NodeIndex(edges[a].from) < NodeIndex(edges[b].from)
                   \/ /\ edges[a].from = edges[b].from
                      /\ FirstImportOf(edges[a].from, edges[a].to)
                            < FirstImportOf(edges[b].from, edges[b].to)

\* three nodes; edges from two files, two of them from the same file
C8_Witness ==
    /\ Done /\ run = 2 /\ ~repaired /\ extra_path = first.extra
    /\ Len(nodes) = 3
    /\ \E a, b, c \in 1..Len(edges) :
          /\ a < b /\ b < c
          /\ edges[a].from = edges[b].from
          /\ edges[b].from # edges[c].from

(***************************************************************************)
(* C9: extra_path changes nothing: runs that differ only in extra_path     *)
(* return the same graph, and every node and edge target is a file below   *)
(* root.                                                                   *)
(***************************************************************************)
C9_ExtraPathIsNoOp ==
    /\ (Done /\ run = 2 /\ ~repaired /\ extra_path # first.extra) =>
          /\ nodes = first.nodes
          /\ edges = first.edges
    /\ Done => \A id \in NodeIds \cup {e[2] : e \in EdgePairs} :
          \E f \in tree : Str(f) = id

\* the first run without extra_path, the second with extra_path "p"; p/a.py exists,
\* a.py does not, and a file imports a
C9_Witness ==
    /\ Done /\ run = 2 /\ ~repaired /\ extra_path # first.extra
    /\ P_a \in tree /\ A_py \notin tree
    /\ \E f \in DiscoveredFiles : content[f] = ProgB
    /\ Len(nodes) >= 2

(***************************************************************************)
(* C10 as stated: `from .M import y` yields the name M, resolved against   *)
(* root as `import M` would be, and creates an edge to root/M.py or        *)
(* root/M/__init__.py whenever that file exists.                           *)
(***************************************************************************)
C10_RelativeImportAlwaysLinked ==
    /\ (pc = "import" /\ content[CurrentFile].parses) =>
          imports = extract_imports(Absolute(content[CurrentFile]))
    /\ Done => \A f \in DiscoveredFiles : content[f].parses =>
          \A st \in RelativeImports(f) :
             FirstCandidate(st.module) # None =>
                <<Str(f), FirstCandidate(st.module)>> \in EdgePairs

(***************************************************************************)
(* C10 amended: `from .M import y` yields the name M and `from . import y` *)
(* yields nothing; M is resolved against root as `import M` would be, and  *)
(* creates an edge to root/M.py or root/M/__init__.py when that file       *)
(* exists, unless M begins with "_" or that file is the importing file;    *)
(* a file has no edge but to the root resolution of one of its names.      *)
(***************************************************************************)
C10_RelativeLevelDropped ==
    /\ (pc = "import" /\ content[CurrentFile].parses) =>
          imports = extract_imports(Absolute(content[CurrentFile]))
    /\ Done => \A f \in DiscoveredFiles : content[f].parses =>
          /\ \A st \in RelativeImports(f) :
                (/\ FirstCandidate(st.module) # None
                 /\ FirstCandidate(st.module) # Str(f)
                 /\ ~StartsWith(st.module, "_")) =>
                    <<Str(f), FirstCandidate(st.module)>> \in EdgePairs
          /\ LET names == extract_imports(Absolute(content[f]))
             IN \A e \in EdgePairs : e[1] = Str(f) =>
                   \E k \in 1..Len(names) : e[2] = FirstCandidate(names[k])

\* p/__init__.py holds `from .a import y`; a.py and p/a.py both exist: the
\* edge goes to a.py and none goes to p/a.py
C10_Witness ==
    /\ Done
    /\ tree = {A_py, P_init, P_a}
    /\ content[P_init] = ProgB
    /\ <<Str(P_init), Str(A_py)>> \in EdgePairs
    /\ <<Str(P_init), Str(P_a)>> \notin EdgePairs
====
